---- MODULE Spec2Model ----
(***************************************************************************)
(* CookieJar of the security server (src/server2/service/cookie-jar.cpp):  *)
(* a std::vector<Cookie> with GenerateCookie, SearchCookie, DeleteCookie   *)
(* and the comparison CompareCookies they share.                           *)
(*                                                                         *)
(* A cookieId is COOKIE_SIZE random bytes; the model stands a key for each  *)
(* distinct byte string and keeps the set of keys small, so that the        *)
(* collision loop of GenerateCookie does collide.                           *)
(***************************************************************************)
EXTENDS Integers, Sequences, FiniteSets, TLC

\* ------------------------------------------------------------------ bounds
\* Process ids the callers ask cookies for.
MaxPid == 2
\* Distinct keys /dev/urandom can give: few enough for drawn keys to collide.
MaxKey == 2
\* GenerateCookie is not called on a jar of this size (never reached while
\* the calls are serialised: there is at most one cookie per pid).
MaxCookies == 3
\* Gids and list lengths CompareCookies is applied to on its own.
MaxGid == 3
MaxGroups == 3

Pids == 1..MaxPid
Keys == 1..MaxKey

\* Threads of the hosting service that call into the jar.
Callers == {"t1", "t2"}

\* What readlink("/proc/<pid>/exe") and get_smack_label_from_process answer.
Paths == {"/bin/app"}
Labels == {"User"}
Fail == "<fail>"

\* The "Groups:" line of /proc/<pid>/status: the gids of the process in
\* order, each a token of decimal digits.
GroupLines == { <<>>, << <<5>>, <<7>> >> }

\* The "Groups:" line of a process in 24 groups with gids of four and five
\* digits: 23 times 6001, then 10005.
LongGroupLine == [ i \in 1..24 |-> IF i < 24 THEN <<6, 0, 0, 1>> ELSE <<1, 0, 0, 0, 5>> ]

\* What opening and reading /proc/<pid>/status gives: the tokens of the
\* "Groups:" line, or no file.
GroupAnswers ==
    { [opened |-> TRUE, tokens |-> g] : g \in GroupLines }
        \cup { [opened |-> FALSE, tokens |-> <<>>] }

\* The same with the process in 24 groups among the processes.
LongGroupAnswers == GroupAnswers \cup { [opened |-> TRUE, tokens |-> LongGroupLine] }

\* const int LINE_LEN = 128, the size of the buffer a line is read into.
LINE_LEN == 128

\* ------------------------------------------------------------------ state
VARIABLES
    m_cookieList,   \* CookieJar::m_cookieList, the vector's elements in order
    capacity,       \* capacity() of the vector; it only grows, so it names the buffer
    smack,          \* what smack_check() answers on this host
    pc,             \* per caller: where it stands inside GenerateCookie
    newCookie,      \* per caller: the local newCookie of GenerateCookie
    ret,            \* the call that has just returned and what it returned
    held,           \* what the client kept from one GenerateCookie return (history)
    cmp,            \* one call of CompareCookies: its arguments and its result
    raced           \* a GenerateCookie has passed its lookup while another call
                    \* for the same pid was between its lookup and its return (history)

vars == <<m_cookieList, capacity, smack, pc, newCookie, ret, held, cmp, raced>>

\* ------------------------------------------------------------------ Cookie
\* A default-constructed Cookie; only pid is set by the callers of the jar.
EmptyCookie ==
    [cookieId |-> 0, pid |-> 0, binaryPath |-> "", smackLabel |-> "",
     permissions |-> <<>>]

Criteria == {"COOKIE_ID", "PID", "PATH", "SMACKLABEL", "PERMISSIONS"}
\* A CompareType value outside the enumeration (reachable by a cast).
UnknownCriterion == "UNKNOWN"
AllCriteria == Criteria \cup {UnknownCriterion}

Range(s) == { s[i] : i \in 1..Len(s) }

\* atoi on a token of decimal digits.
RECURSIVE Atoi(_)
Atoi(tok) ==
    IF tok = <<>> THEN 0
    ELSE 10 * Atoi(SubSeq(tok, 1, Len(tok) - 1)) + tok[Len(tok)]

\* The strtok loop: one push_back(atoi(token)) per token, in order.
ParseGroups(tokens) == [ i \in 1..Len(tokens) |-> Atoi(tokens[i]) ]

\* status.getline(line, LINE_LEN) on the "Groups:" line: the buffer takes
\* the characters that fit and the rest of the line is dropped. With `room`
\* characters left, a token and the space after it take Len + 1 of them; a
\* token the end of the buffer cuts keeps its first `room` digits, and the
\* tokens after it are lost.
RECURSIVE GetLine(_, _)
GetLine(tokens, room) ==
    IF tokens = <<>> \/ room <= 0 THEN <<>>
    ELSE IF Len(Head(tokens)) <= room
         THEN <<Head(tokens)>> \o GetLine(Tail(tokens), room - Len(Head(tokens)) - 1)
         ELSE << SubSeq(Head(tokens), 1, room) >>

\* PermLoop comparing only the gids at equal positions.
RECURSIVE PermLoop_SamePosition(_, _, _, _)
PermLoop_SamePosition(p1, p2, i, k) ==
    IF i > Len(p1) \/ i > Len(p2) THEN FALSE
    ELSE IF p1[i] = p2[i] THEN TRUE
    ELSE PermLoop_SamePosition(p1, p2, i + 1, k)

\* The PERMISSIONS case: for i, for k, first equal pair returns true.
RECURSIVE PermLoop(_, _, _, _)
PermLoop(p1, p2, i, k) ==
    IF i > Len(p1) THEN FALSE
    ELSE IF k > Len(p2) THEN PermLoop(p1, p2, i + 1, 1)
    ELSE IF p1[i] = p2[k] THEN TRUE
    ELSE PermLoop(p1, p2, i, k + 1)

\* CompareCookies comparing the pids in the default case.
CompareCookies_DefaultPid(c1, c2, criterion) ==
    CASE criterion = "COOKIE_ID"   -> c1.cookieId = c2.cookieId
      [] criterion = "PATH"        -> c1.binaryPath = c2.binaryPath
      [] criterion = "SMACKLABEL"  -> c1.smackLabel = c2.smackLabel
      [] criterion = "PERMISSIONS" -> PermLoop(c1.permissions, c2.permissions, 1, 1)
      [] OTHER                     -> c1.pid = c2.pid

\* CompareCookies answering true in the default case.
CompareCookies_DefaultTrue(c1, c2, criterion) ==
    CASE criterion = "COOKIE_ID"   -> c1.cookieId = c2.cookieId
      [] criterion = "PID"         -> c1.pid = c2.pid
      [] criterion = "PATH"        -> c1.binaryPath = c2.binaryPath
      [] criterion = "SMACKLABEL"  -> c1.smackLabel = c2.smackLabel
      [] criterion = "PERMISSIONS" -> PermLoop(c1.permissions, c2.permissions, 1, 1)
      [] OTHER                     -> TRUE

CompareCookies(c1, c2, criterion) ==
    CASE criterion = "COOKIE_ID"   -> c1.cookieId = c2.cookieId
      [] criterion = "PID"         -> c1.pid = c2.pid
      [] criterion = "PATH"        -> c1.binaryPath = c2.binaryPath
      [] criterion = "SMACKLABEL"  -> c1.smackLabel = c2.smackLabel
      [] criterion = "PERMISSIONS" -> PermLoop(c1.permissions, c2.permissions, 1, 1)
      [] OTHER                     -> FALSE

\* SearchFrom going on after a match: the last match is returned.
RECURSIVE SearchFrom_LastMatch(_, _, _, _)
SearchFrom_LastMatch(list, pattern, criterion, i) ==
    IF i > Len(list) THEN 0
    ELSE LET later == SearchFrom_LastMatch(list, pattern, criterion, i + 1)
         IN IF later # 0 THEN later
            ELSE IF CompareCookies(pattern, list[i], criterion) THEN i ELSE 0

\* The for loop of SearchCookie from position i: the position of the first
\* match, 0 for NULL.
RECURSIVE SearchFrom(_, _, _, _)
SearchFrom(list, pattern, criterion, i) ==
    IF i > Len(list) THEN 0
    ELSE IF CompareCookies(pattern, list[i], criterion) THEN i
    ELSE SearchFrom(list, pattern, criterion, i + 1)

SearchCookie(list, pattern, criterion) ==
    IF Len(list) = 0 THEN 0 ELSE SearchFrom(list, pattern, criterion, 1)

\* DeleteFrom overwriting only the cookieId of the deleted record with the
\* last one's: the other fields of the deleted record stay.
RECURSIVE DeleteFrom_MoveIdOnly(_, _, _, _)
DeleteFrom_MoveIdOnly(list, pattern, criterion, i) ==
    IF i > Len(list) THEN list
    ELSE IF CompareCookies(pattern, list[i], criterion)
         THEN LET moved == IF i # Len(list)
                           THEN [list EXCEPT ![i].cookieId = list[Len(list)].cookieId]
                           ELSE list
              IN DeleteFrom_MoveIdOnly(SubSeq(moved, 1, Len(list) - 1),
                                       pattern, criterion, i + 1)
         ELSE DeleteFrom_MoveIdOnly(list, pattern, criterion, i + 1)

\* DeleteFrom stepping to i + 1 after a removal: the record moved into
\* position i is never compared.
RECURSIVE DeleteFrom_SkipMoved(_, _, _, _)
DeleteFrom_SkipMoved(list, pattern, criterion, i) ==
    IF i > Len(list) THEN list
    ELSE IF CompareCookies(pattern, list[i], criterion)
         THEN LET moved == IF i # Len(list)
                           THEN [list EXCEPT ![i] = list[Len(list)]]
                           ELSE list
              IN DeleteFrom_SkipMoved(SubSeq(moved, 1, Len(list) - 1),
                                      pattern, criterion, i + 1)
         ELSE DeleteFrom_SkipMoved(list, pattern, criterion, i + 1)

\* The for loop of DeleteCookie from position i: a match is overwritten by
\* the last element, the vector shrinks by one and i stays.
RECURSIVE DeleteFrom(_, _, _, _)
DeleteFrom(list, pattern, criterion, i) ==
    IF i > Len(list) THEN list
    ELSE IF CompareCookies(pattern, list[i], criterion)
         THEN LET moved == IF i # Len(list)
                           THEN [list EXCEPT ![i] = list[Len(list)]]
                           ELSE list
              IN DeleteFrom(SubSeq(moved, 1, Len(list) - 1), pattern, criterion, i)
         ELSE DeleteFrom(list, pattern, criterion, i + 1)

\* DeleteResult whose loop stops one short of the end: the last record is
\* never compared.
DeleteResult_SkipLast(list, pattern, criterion) ==
    IF Len(list) = 0 THEN list
    ELSE Append(DeleteFrom(SubSeq(list, 1, Len(list) - 1), pattern, criterion, 1),
                list[Len(list)])

DeleteResult(list, pattern, criterion) ==
    IF Len(list) = 0 THEN list ELSE DeleteFrom(list, pattern, criterion, 1)

\* push_back reallocates when size() = capacity(): the capacity doubles.
GrownCapacity(cap, size) ==
    IF size < cap THEN cap ELSE IF cap = 0 THEN 1 ELSE 2 * cap

\* ------------------------------------------------------------------ returns
\* What the client keeps of a GenerateCookie return: the pointer
\* &m_cookieList[i] (the buffer, the position and the record it denotes at
\* the moment of the return), or for a NULL the pid that failed. answered is
\* the cookie the answers of the process describe, where the call that
\* returned the pointer asked for them (history).
NoHandle ==
    [cap |-> 0, idx |-> 0, cookie |-> EmptyCookie, failedPid |-> 0,
     answered |-> EmptyCookie]

HandleTo(list, cap, i) ==
    [cap |-> cap, idx |-> i, cookie |-> list[i], failedPid |-> 0,
     answered |-> list[i]]

FailureOf(pid) == [NoHandle EXCEPT !.failedPid = pid]

\* A call that has returned: what was called and the pointer returned, as a
\* position in the vector (0 for NULL). via tells which return statement of
\* GenerateCookie was taken, retried whether the client remembers the pid
\* to have failed, removed how many records DeleteCookie popped, answered
\* the cookie the answers of the process describe (history).
Return(op, criterion, pid, via, idx) ==
    [op |-> op, crit |-> criterion, pid |-> pid, via |-> via,
     idx |-> idx, retried |-> FALSE, removed |-> 0, answered |-> EmptyCookie]

NoReturn == Return("none", "-", 0, "-", 0)

FailedVia == {"nopath", "nolabel"}

\* What reading through a pointer can give: the element when the pointer is
\* into the current buffer and below size(); otherwise the read is undefined
\* (freed buffer after a reallocation, destroyed element after pop_back).
DerefOutcomes(h) ==
    IF h.cap = capacity /\ h.idx \in 1..Len(m_cookieList)
    THEN { [kind |-> "value", cookie |-> m_cookieList[h.idx]] }
    ELSE { [kind |-> "value", cookie |-> h.cookie],
           [kind |-> "garbage", cookie |-> EmptyCookie],
           [kind |-> "crash", cookie |-> EmptyCookie] }

\* No call of CompareCookies on its own is under way.
NoCompare == [c1 |-> EmptyCookie, c2 |-> EmptyCookie, criterion |-> "-", result |-> "-"]

\* ------------------------------------------------------------------ Init
Init ==
    /\ m_cookieList = <<>>
    /\ capacity = 0
    /\ smack \in BOOLEAN
    /\ pc = [t \in Callers |-> "idle"]
    /\ newCookie = [t \in Callers |-> EmptyCookie]
    /\ ret = NoReturn
    /\ held = NoHandle
    /\ cmp = NoCompare
    /\ raced = FALSE

\* The hosting service serialises the calls: a call starts only when no
\* other call is in progress.
Serialized == \A t \in Callers : pc[t] = "idle"

\* The caller takes the value just returned before anything else runs. It
\* may keep a pointer GenerateCookie returned, or remember the pid
\* GenerateCookie failed for.
TakeReturn(keep) ==
    /\ ret.op # "none"
    /\ ret' = NoReturn
    /\ held' = IF keep /\ ret.op = "Generate"
               THEN IF ret.idx # 0
                    THEN IF ret.via = "created"
                         THEN [HandleTo(m_cookieList, capacity, ret.idx)
                                 EXCEPT !.answered = ret.answered]
                         ELSE HandleTo(m_cookieList, capacity, ret.idx)
                    ELSE FailureOf(ret.pid)
               ELSE held
    /\ UNCHANGED <<m_cookieList, capacity, smack, pc, newCookie, cmp, raced>>

\* ------------------------------------------------------------------ GenerateCookie
\* Another caller is inside GenerateCookie for the same pid, past its lookup
\* and before its return.
Overlaps(t, pid) ==
    \E u \in Callers \ {t} : pc[u] # "idle" /\ newCookie[u].pid = pid

\* GenerateCheck without the lookup: every call goes on to create a cookie.
GenerateCheck_NoLookup(t, pid) ==
    /\ pc[t] = "idle" /\ ret.op = "none"
    /\ Len(m_cookieList) < MaxCookies
    /\ newCookie' = [newCookie EXCEPT ![t] = [EmptyCookie EXCEPT !.pid = pid]]
    /\ pc' = [pc EXCEPT ![t] = "draw"]
    /\ raced' = (raced \/ Overlaps(t, pid))
    /\ UNCHANGED <<m_cookieList, capacity, smack, ret, held, cmp>>

\* GenerateCheck replacing the cookie of the pid: the stored one is removed
\* and a new one is made.
GenerateCheck_Replace(t, pid) ==
    /\ pc[t] = "idle" /\ ret.op = "none"
    /\ Len(m_cookieList) < MaxCookies
    /\ LET nc == [EmptyCookie EXCEPT !.pid = pid]
       IN /\ m_cookieList' = DeleteResult(m_cookieList, nc, "PID")
          /\ newCookie' = [newCookie EXCEPT ![t] = nc]
          /\ pc' = [pc EXCEPT ![t] = "draw"]
          /\ raced' = (raced \/ Overlaps(t, pid))
    /\ UNCHANGED <<capacity, smack, ret, held, cmp>>

\* GenerateCheck returning the first cookie of the jar when the pid has one.
GenerateCheck_FirstCookie(t, pid) ==
    /\ pc[t] = "idle" /\ ret.op = "none"
    /\ Len(m_cookieList) < MaxCookies
    /\ LET nc == [EmptyCookie EXCEPT !.pid = pid]
           searchResult == SearchCookie(m_cookieList, nc, "PID")
       IN IF searchResult # 0
          THEN /\ ret' = Return("Generate", "-", pid, "exists", 1)
               /\ UNCHANGED <<pc, newCookie, raced>>
          ELSE /\ newCookie' = [newCookie EXCEPT ![t] = nc]
               /\ pc' = [pc EXCEPT ![t] = "draw"]
               /\ ret' = ret
               /\ raced' = (raced \/ Overlaps(t, pid))
    /\ UNCHANGED <<m_cookieList, capacity, smack, held, cmp>>

\* Lines 61-69: build newCookie with the pid, return the existing cookie of
\* that pid if there is one.
GenerateCheck(t, pid) ==
    /\ pc[t] = "idle" /\ ret.op = "none"
    /\ Len(m_cookieList) < MaxCookies
    /\ LET nc == [EmptyCookie EXCEPT !.pid = pid]
           searchResult == SearchCookie(m_cookieList, nc, "PID")
       IN IF searchResult # 0
          THEN /\ ret' = Return("Generate", "-", pid, "exists", searchResult)
               /\ UNCHANGED <<pc, newCookie, raced>>
          ELSE /\ newCookie' = [newCookie EXCEPT ![t] = nc]
               /\ pc' = [pc EXCEPT ![t] = "draw"]
               /\ ret' = ret
               /\ raced' = (raced \/ Overlaps(t, pid))
    /\ UNCHANGED <<m_cookieList, capacity, smack, held, cmp>>

\* GenerateDraw with the loop condition inverted: it repeats while the key
\* is not found.
GenerateDraw_Inverted(t, key) ==
    /\ pc[t] = "draw" /\ ret.op = "none"
    /\ LET nc == [newCookie[t] EXCEPT !.cookieId = key]
           searchResult == SearchCookie(m_cookieList, nc, "COOKIE_ID")
       IN /\ newCookie' = [newCookie EXCEPT ![t] = nc]
          /\ pc' = [pc EXCEPT ![t] = IF searchResult # 0 THEN "resolve" ELSE "draw"]
    /\ UNCHANGED <<m_cookieList, capacity, smack, ret, held, cmp, raced>>

\* GenerateDraw without the uniqueness check: the first key drawn is taken.
GenerateDraw_NoRetry(t, key) ==
    /\ pc[t] = "draw" /\ ret.op = "none"
    /\ newCookie' = [newCookie EXCEPT ![t].cookieId = key]
    /\ pc' = [pc EXCEPT ![t] = "resolve"]
    /\ UNCHANGED <<m_cookieList, capacity, smack, ret, held, cmp, raced>>

\* Lines 72-82, one iteration: read a key from /dev/urandom and look it up;
\* the loop repeats while the key is found.
GenerateDraw(t, key) ==
    /\ pc[t] = "draw" /\ ret.op = "none"
    /\ LET nc == [newCookie[t] EXCEPT !.cookieId = key]
           searchResult == SearchCookie(m_cookieList, nc, "COOKIE_ID")
       IN /\ newCookie' = [newCookie EXCEPT ![t] = nc]
          /\ pc' = [pc EXCEPT ![t] = IF searchResult # 0 THEN "draw" ELSE "resolve"]
    /\ UNCHANGED <<m_cookieList, capacity, smack, ret, held, cmp, raced>>

\* SmackLabel taking the answer of the process whatever smack_check() says.
SmackLabel_AlwaysAsked(answer) == answer

\* Lines 97-107: the label of the process when smack is enabled, the fixed
\* label otherwise (the provider is then not asked).
SmackLabel(answer) == IF smack THEN answer ELSE "smack_disabled"

\* Lines 110-129: read lines up to the "Groups:" line and leave it in `line`
\* for strtok. The line is "Groups:" and a tab (8 characters), then the
\* gids. The stream is never tested: when the file cannot be opened the
\* first getline fails, stores the terminating null character at line[0]
\* and strtok finds no token.
GroupTokens(answer) ==
    IF answer.opened THEN GetLine(answer.tokens, LINE_LEN - 1 - 8) ELSE <<>>

\* return NULL (lines 92, 103): what GenerateCookie(pid) returns when it
\* gives up at `via`.
FailureReturn(pid, via) == Return("Generate", "-", pid, via, 0)

\* GenerateFail returning the address of the last record of the jar.
GenerateFail_ReturnsLast(t, via) ==
    /\ ret' = Return("Generate", "-", newCookie[t].pid, via, Len(m_cookieList))
    /\ pc' = [pc EXCEPT ![t] = "idle"]
    /\ newCookie' = [newCookie EXCEPT ![t] = EmptyCookie]
    /\ UNCHANGED <<m_cookieList, capacity, smack, held, cmp, raced>>

\* GenerateFail leaving the half-built cookie in the jar.
GenerateFail_Placeholder(t, via) ==
    /\ ret' = FailureReturn(newCookie[t].pid, via)
    /\ m_cookieList' = Append(m_cookieList, newCookie[t])
    /\ pc' = [pc EXCEPT ![t] = "idle"]
    /\ newCookie' = [newCookie EXCEPT ![t] = EmptyCookie]
    /\ UNCHANGED <<capacity, smack, held, cmp, raced>>

\* GenerateCookie returns NULL (lines 92, 103): the local newCookie is gone.
GenerateFail(t, via) ==
    /\ ret' = FailureReturn(newCookie[t].pid, via)
    /\ pc' = [pc EXCEPT ![t] = "idle"]
    /\ newCookie' = [newCookie EXCEPT ![t] = EmptyCookie]
    /\ UNCHANGED <<m_cookieList, capacity, smack, held, cmp, raced>>

\* Lines 140-141: push_back and return the address of the last element.
GenerateInsert(t, cookie, answered) ==
    /\ m_cookieList' = Append(m_cookieList, cookie)
    /\ capacity' = GrownCapacity(capacity, Len(m_cookieList))
    /\ ret' = [Return("Generate", "-", cookie.pid, "created", Len(m_cookieList'))
                 EXCEPT !.retried = (held.failedPid = cookie.pid),
                        !.answered = answered]
    /\ held' = IF held.failedPid = cookie.pid THEN NoHandle ELSE held
    /\ pc' = [pc EXCEPT ![t] = "idle"]
    /\ newCookie' = [newCookie EXCEPT ![t] = EmptyCookie]
    /\ UNCHANGED <<smack, cmp, raced>>

\* Lines 84-141: the path, the label and the groups of the process are read
\* (none of it touches the jar), then the cookie is inserted; NULL when the
\* path or the label cannot be read. The answers describe a cookie of that
\* path and label with one gid per token of the "Groups:" line.
GenerateResolve(t, path, label, groups) ==
    /\ pc[t] = "resolve" /\ ret.op = "none"
    /\ IF path = Fail
       THEN GenerateFail(t, "nopath")
       ELSE IF smack /\ label = Fail
       THEN GenerateFail(t, "nolabel")
       ELSE LET found == [newCookie[t] EXCEPT
                             !.binaryPath = path,
                             !.smackLabel = SmackLabel(label)]
            IN GenerateInsert(t,
                  [found EXCEPT !.permissions = ParseGroups(GroupTokens(groups))],
                  [found EXCEPT !.permissions =
                      [ i \in 1..Len(groups.tokens) |-> Atoi(groups.tokens[i]) ]])

\* ------------------------------------------------------------------ SearchCookie, DeleteCookie
\* The patterns the callers pass: a Cookie with the field of the criterion set.
PatternGroups == { <<>>, <<5>>, <<7, 9>>, <<9, 5>> }

Patterns(criterion) ==
    CASE criterion = "COOKIE_ID"   -> { [EmptyCookie EXCEPT !.cookieId = k] : k \in Keys }
      [] criterion = "PID"         -> { [EmptyCookie EXCEPT !.pid = p] : p \in Pids }
      [] criterion = "PATH"        -> { [EmptyCookie EXCEPT !.binaryPath = p] :
                                           p \in Paths \cup {"/bin/sh"} }
      [] criterion = "SMACKLABEL"  -> { [EmptyCookie EXCEPT !.smackLabel = l] :
                                           l \in Labels \cup {"smack_disabled"} }
      [] criterion = "PERMISSIONS" -> { [EmptyCookie EXCEPT !.permissions = g] :
                                           g \in PatternGroups }
      [] OTHER                     -> { [EmptyCookie EXCEPT !.pid = p, !.binaryPath = q] :
                                           p \in Pids, q \in Paths }

\* Lines 163-182: the whole of SearchCookie.
Search(t, pattern, criterion) ==
    /\ pc[t] = "idle" /\ ret.op = "none"
    /\ ret' = Return("Search", criterion, 0, "-",
                     SearchCookie(m_cookieList, pattern, criterion))
    /\ UNCHANGED <<m_cookieList, capacity, smack, pc, newCookie, held, cmp, raced>>

\* Lines 144-161: the whole of DeleteCookie. A pointer the client holds to a
\* record the pattern matches is a pointer to a deleted cookie: the client
\* holds no cookie any more.
Delete(t, pattern, criterion) ==
    /\ pc[t] = "idle" /\ ret.op = "none"
    /\ m_cookieList' = DeleteResult(m_cookieList, pattern, criterion)
    /\ ret' = [Return("Delete", criterion, 0, "-", 0)
                 EXCEPT !.removed = Len(m_cookieList) - Len(m_cookieList')]
    /\ held' = IF held.idx # 0 /\ CompareCookies(pattern, held.cookie, criterion)
               THEN NoHandle ELSE held
    /\ UNCHANGED <<capacity, smack, pc, newCookie, cmp, raced>>

\* ------------------------------------------------------------------ specification
GenerateCall(t) == \E pid \in Pids : GenerateCheck(t, pid)

GenerateStepOn(t, answers) ==
    \/ \E key \in Keys : GenerateDraw(t, key)
    \/ \E path \in Paths \cup {Fail} : \E label \in Labels \cup {Fail} :
          \E groups \in answers : GenerateResolve(t, path, label, groups)

GenerateStep(t) == GenerateStepOn(t, GroupAnswers)

SearchCall(t) ==
    \E criterion \in AllCriteria : \E pattern \in Patterns(criterion) :
        Search(t, pattern, criterion)

DeleteCall(t) ==
    \E criterion \in AllCriteria : \E pattern \in Patterns(criterion) :
        Delete(t, pattern, criterion)

\* The calls serialised by the hosting service.
Next ==
    \/ \E t \in Callers :
          \/ Serialized /\ GenerateCall(t)
          \/ GenerateStep(t)
          \/ Serialized /\ SearchCall(t)
          \/ Serialized /\ DeleteCall(t)
    \/ \E keep \in BOOLEAN : TakeReturn(keep)

Spec == Init /\ [][Next]_vars

\* /dev/urandom gives a key no cookie of the jar has.
DrawUnused(t) ==
    \E key \in Keys :
        /\ \A i \in 1..Len(m_cookieList) : m_cookieList[i].cookieId # key
        /\ GenerateDraw(t, key)

\* The path, the label and the groups are answered, one way or the other.
Resolve(t) ==
    \E path \in Paths \cup {Fail} : \E label \in Labels \cup {Fail} :
        \E groups \in GroupAnswers : GenerateResolve(t, path, label, groups)

\* The serialised calls, with /dev/urandom giving a key that is not in use
\* sooner or later and the reads of /proc coming back.
SpecFair ==
    /\ Init /\ [][Next]_vars
    /\ \A t \in Callers : WF_vars(DrawUnused(t)) /\ WF_vars(Resolve(t))

\* GenerateCookie called without serialisation: a call may start while
\* another caller is between the steps of its GenerateCookie. The lookup,
\* each draw and the push_back are taken as the steps; DeleteCookie runs
\* between the calls, the client keeps no pointer, and every process is in
\* the groups 5 and 7.
NextConcurrent ==
    \/ \E t \in Callers :
          \/ GenerateCall(t)
          \/ GenerateStepOn(t, {[opened |-> TRUE, tokens |-> << <<5>>, <<7>> >>]})
          \/ Serialized /\ DeleteCall(t)
    \/ TakeReturn(FALSE)

SpecConcurrent == Init /\ [][NextConcurrent]_vars

\* The same calls with a process in 24 groups among the processes.
NextLongGroups ==
    \/ \E t \in Callers :
          \/ Serialized /\ GenerateCall(t)
          \/ GenerateStepOn(t, LongGroupAnswers)
          \/ Serialized /\ SearchCall(t)
          \/ Serialized /\ DeleteCall(t)
    \/ \E keep \in BOOLEAN : TakeReturn(keep)

SpecLongGroups == Init /\ [][NextLongGroups]_vars

\* ------------------------------------------------------------------ CompareCookies on its own
\* Every permission list of up to MaxGroups gids out of 1..MaxGid.
GroupSeqs == UNION { [1..n -> 1..MaxGid] : n \in 0..MaxGroups }

CompareInputs(criterion) ==
    IF criterion = "PERMISSIONS"
    THEN { [EmptyCookie EXCEPT !.permissions = g] : g \in GroupSeqs }
    ELSE Patterns(criterion)

InitCompare ==
    /\ m_cookieList = <<>>
    /\ capacity = 0
    /\ smack = TRUE
    /\ pc = [t \in Callers |-> "idle"]
    /\ newCookie = [t \in Callers |-> EmptyCookie]
    /\ ret = NoReturn
    /\ held = NoHandle
    /\ raced = FALSE
    /\ \E criterion \in AllCriteria :
          \E c1 \in CompareInputs(criterion), c2 \in CompareInputs(criterion) :
             cmp = [c1 |-> c1, c2 |-> c2, criterion |-> criterion, result |-> "-"]

\* Lines 184-214: one call of CompareCookies.
Compare ==
    /\ cmp.result = "-"
    /\ cmp' = [cmp EXCEPT !.result =
                  IF CompareCookies(cmp.c1, cmp.c2, cmp.criterion) THEN "true" ELSE "false"]
    /\ UNCHANGED <<m_cookieList, capacity, smack, pc, newCookie, ret, held, raced>>

NextCompare == Compare

SpecCompare == InitCompare /\ [][NextCompare]_vars

\* ------------------------------------------------------------------ claims
\* C1: under serialised calls no two live cookies have the same cookieId,
\* whatever keys the random source returns.
C1_UniqueCookieId ==
    \A i, j \in 1..Len(m_cookieList) :
        i # j => m_cookieList[i].cookieId # m_cookieList[j].cookieId

\* C1 witness: a key already in the jar was drawn and rejected, and the call
\* is drawing again.
C1_Witness ==
    \E t \in Callers :
        /\ pc[t] = "draw"
        /\ \E i \in 1..Len(m_cookieList) :
              m_cookieList[i].cookieId = newCookie[t].cookieId

\* C2: under serialised calls the jar never holds two live cookies of equal pid.
C2_OneCookiePerPid ==
    \A i, j \in 1..Len(m_cookieList) :
        i # j => m_cookieList[i].pid # m_cookieList[j].pid

\* C2 witness: GenerateCookie was called for a pid that has a cookie and
\* returned it, with another cookie in the jar.
C2_Witness ==
    /\ ret.op = "Generate" /\ ret.via = "exists"
    /\ Len(m_cookieList) >= 2
    /\ m_cookieList[ret.idx].pid = ret.pid

\* C3: when the client holds the cookie an earlier GenerateCookie(pid)
\* returned and no DeleteCookie has matched it since (in particular when
\* there was no DeleteCookie at all), GenerateCookie(pid) returns at once a
\* cookie of the same cookieId and the jar is as before.
C3_GenerateIdempotent ==
    [][ \A t \in Callers, pid \in Pids :
          ( /\ held.idx # 0
            /\ held.cookie.pid = pid
            /\ GenerateCheck(t, pid) )
          => /\ pc'[t] = "idle"
             /\ ret'.op = "Generate" /\ ret'.pid = pid
             /\ ret'.idx \in 1..Len(m_cookieList')
             /\ m_cookieList'[ret'.idx].cookieId = held.cookie.cookieId
             /\ m_cookieList' = m_cookieList
             /\ capacity' = capacity ]_vars

\* C3 witness: the second GenerateCookie of a pid has returned the cookie the
\* client holds from the first, a GenerateCookie of another pid in between.
C3_Witness ==
    /\ ret.op = "Generate" /\ ret.via = "exists"
    /\ held.idx # 0 /\ held.cookie.pid = ret.pid
    /\ ret.idx < Len(m_cookieList)
    /\ m_cookieList[ret.idx].cookieId = held.cookie.cookieId

\* C4: a pointer the client keeps from GenerateCookie, to a cookie no
\* DeleteCookie has matched since, reads as that same cookie (cookieId, pid,
\* path, label, permissions) after any later GenerateCookie and DeleteCookie.
C4_HandleStable ==
    held.idx # 0 =>
        DerefOutcomes(held) = { [kind |-> "value", cookie |-> held.cookie] }

\* The positions of list whose record matches the pattern.
Matching(list, pattern, criterion) ==
    { i \in 1..Len(list) : CompareCookies(pattern, list[i], criterion) }

\* C5: DeleteCookie removes every record that matches and no other: the
\* records left are the records before that do not match, each once and
\* unchanged; with nothing matching (or an empty jar) the jar is unchanged.
C5_DeleteExactlyMatching ==
    [][ \A t \in Callers, criterion \in AllCriteria :
          \A pattern \in Patterns(criterion) :
             ( /\ ret'.op = "Delete" /\ ret'.crit = criterion
               /\ Delete(t, pattern, criterion) )
             => LET gone == Matching(m_cookieList, pattern, criterion)
                    left == (1..Len(m_cookieList)) \ gone
                IN /\ Len(m_cookieList') = Cardinality(left)
                   /\ Range(m_cookieList') = { m_cookieList[i] : i \in left }
                   /\ gone = {} => m_cookieList' = m_cookieList ]_vars

\* C5 witness: one DeleteCookie has removed two records and left none that
\* matched.
C5_Witness ==
    /\ ret.op = "Delete"
    /\ ret.removed >= 2

\* C6: a GenerateCookie that cannot read the path or the label of the
\* process returns NULL and leaves the jar as it was.
C6_FailedGenerateChangesNothing ==
    [][ \A t \in Callers, path \in Paths \cup {Fail}, label \in Labels \cup {Fail} :
          \A groups \in GroupAnswers :
             ( /\ path = Fail \/ (smack /\ label = Fail)
               /\ pc[t] = "resolve"
               /\ GenerateResolve(t, path, label, groups) )
             => /\ ret'.op = "Generate" /\ ret'.idx = 0
                /\ m_cookieList' = m_cookieList
                /\ capacity' = capacity ]_vars

\* C6 witness: GenerateCookie has created the cookie of a pid for which an
\* earlier GenerateCookie returned NULL.
C6_Witness ==
    /\ ret.op = "Generate" /\ ret.via = "created" /\ ret.retried
    /\ m_cookieList[ret.idx].pid = ret.pid

\* C7: when /proc/<pid>/status cannot be read (path and label were read),
\* GenerateCookie returns a failure and inserts no record.
C7_GroupFailureAborts ==
    [][ \A t \in Callers, path \in Paths, label \in Labels :
          \A groups \in GroupAnswers :
             ( /\ ~groups.opened
               /\ GenerateResolve(t, path, label, groups) )
             => /\ ret'.op = "Generate" /\ ret'.idx = 0
                /\ m_cookieList' = m_cookieList ]_vars

\* C8: under PERMISSIONS c1 matches c2 exactly when their permission lists
\* share a gid, whatever the order and the repetitions in either list, and
\* the other way round.
C8_PermissionsIntersect ==
    (cmp.criterion = "PERMISSIONS" /\ cmp.result # "-") =>
        LET shared == Range(cmp.c1.permissions) \cap Range(cmp.c2.permissions)
        IN /\ (cmp.result = "true") = (shared # {})
           /\ CompareCookies(cmp.c2, cmp.c1, "PERMISSIONS") = (shared # {})

\* C8 witness: two lists of different lengths and orders that share only
\* their last gid were compared and matched.
C8_Witness ==
    /\ cmp.criterion = "PERMISSIONS" /\ cmp.result = "true"
    /\ cmp.c1.permissions = <<1, 1, 2>>
    /\ cmp.c2.permissions = <<3, 2>>

\* C9: SearchCookie returns the matching record of lowest position, NULL
\* exactly when no record matches (the empty jar included), and leaves the
\* jar alone.
C9_SearchFirstMatch ==
    [][ \A t \in Callers, criterion \in AllCriteria :
          \A pattern \in Patterns(criterion) :
             ( /\ ret'.op = "Search" /\ ret'.crit = criterion
               /\ Search(t, pattern, criterion) )
             => LET found == Matching(m_cookieList, pattern, criterion)
                IN /\ ret'.op = "Search"
                   /\ (ret'.idx = 0) = (found = {})
                   /\ found # {} => /\ ret'.idx \in found
                                     /\ \A i \in found : ret'.idx <= i
                   /\ m_cookieList' = m_cookieList
                   /\ capacity' = capacity ]_vars

\* C9 witness: a search by path has returned the first of two records of
\* that path.
C9_Witness ==
    /\ ret.op = "Search" /\ ret.crit = "PATH" /\ ret.idx = 1
    /\ Len(m_cookieList) >= 2
    /\ m_cookieList[1].binaryPath = m_cookieList[2].binaryPath

\* What the caller of SearchCookie or DeleteCookie gets to see of a call:
\* the pointer returned (DeleteCookie returns nothing).
Outcome(r) == [op |-> r.op, idx |-> r.idx]

C11_UnknownNeverMatches ==
    [][ \A t \in Callers, pattern \in Patterns(UnknownCriterion) :
          /\ ( /\ ret'.op = "Search" /\ ret'.crit = UnknownCriterion
               /\ Search(t, pattern, UnknownCriterion) )
             => /\ ret'.idx = 0
                /\ \A i \in 1..Len(m_cookieList) :
                      ~CompareCookies(m_cookieList[i], m_cookieList[i], UnknownCriterion)
          /\ ( /\ ret'.op = "Delete" /\ ret'.crit = UnknownCriterion
               /\ Delete(t, pattern, UnknownCriterion) )
             => /\ m_cookieList' = m_cookieList
                /\ held' = held ]_vars

\* C11 witness: DeleteCookie with a criterion outside the five has returned
\* and the jar still holds two cookies, whose pids and path the patterns name.
C11_Witness ==
    /\ ret.op = "Delete" /\ ret.crit = UnknownCriterion
    /\ Len(m_cookieList) >= 2

\* C12: a cookieId that is live before and after a step is bound to the same
\* pid, path, label and permissions after it as before, whatever the step
\* (a DeleteCookie that moves the record to another position included).
C12_CookieImmutable ==
    [][ \A i \in 1..Len(m_cookieList) : \A j \in 1..Len(m_cookieList') :
          m_cookieList'[j].cookieId = m_cookieList[i].cookieId
             => m_cookieList'[j] = m_cookieList[i] ]_vars

\* C12 witness: DeleteCookie has removed the first of two records and the
\* record the client holds a pointer to has moved from position 2 to 1.
C12_Witness ==
    /\ ret.op = "Delete" /\ ret.removed = 1
    /\ held.idx = 2
    /\ Len(m_cookieList) = 1
    /\ m_cookieList[1] = held.cookie

\* C13: while the client holds the cookie GenerateCookie(p) created and no
\* DeleteCookie has matched it, SearchCookie by PID p returns a record with
\* pid p, the path, the label and the gids the process answered with, and
\* the cookieId GenerateCookie returned.
C13_SearchReturnsAnswered ==
    [][ \A t \in Callers, p \in Pids :
          ( /\ held.idx # 0
            /\ held.answered.pid = p
            /\ ret'.op = "Search" /\ ret'.crit = "PID"
            /\ Search(t, [EmptyCookie EXCEPT !.pid = p], "PID") )
          => /\ ret'.idx # 0
             /\ m_cookieList[ret'.idx] = held.answered ]_vars

\* The jar holds a cookie of pid p.
HasPid(list, p) == \E i \in 1..Len(list) : list[i].pid = p

\* C14: DeleteCookie by PID p leaves no cookie of pid p; while there is
\* none, SearchCookie by PID p returns NULL; and a cookie of pid p appears
\* again only by a GenerateCookie(p) that inserts it.
C14_DeletedStaysGone ==
    [][ \A p \in Pids :
          LET pattern == [EmptyCookie EXCEPT !.pid = p]
          IN /\ \A t \in Callers :
                   ( /\ ret'.op = "Delete" /\ ret'.crit = "PID"
                     /\ Delete(t, pattern, "PID") )
                   => ~HasPid(m_cookieList', p)
             /\ \A t \in Callers :
                   ( /\ ~HasPid(m_cookieList, p)
                     /\ ret'.op = "Search" /\ ret'.crit = "PID"
                     /\ Search(t, pattern, "PID") )
                   => ret'.idx = 0
             /\ ( ~HasPid(m_cookieList, p) /\ HasPid(m_cookieList', p) )
                   => /\ ret'.op = "Generate" /\ ret'.via = "created"
                      /\ ret'.pid = p
                      /\ m_cookieList'[ret'.idx].pid = p ]_vars

\* C14 witness: DeleteCookie by PID has removed the cookie of a pid and left
\* the cookie of another pid in the jar.
C14_Witness ==
    /\ ret.op = "Delete" /\ ret.crit = "PID" /\ ret.removed = 1
    /\ Len(m_cookieList) = 1
    /\ \E p \in Pids : ~HasPid(m_cookieList, p)

\* C15: the lookup of GenerateCookie and its push_back are separate steps.
\* The jar holds two live cookies of equal pid only after two GenerateCookie
\* calls for that pid have both done the lookup before either inserted
\* (which serialised calls never do).
C15_DuplicateOnlyByRace ==
    \A i, j \in 1..Len(m_cookieList) :
        (i # j /\ m_cookieList[i].pid = m_cookieList[j].pid) => raced

\* C15 witness: two GenerateCookie calls for one pid have overlapped and
\* the jar holds two live cookies of that pid.
C15_Witness ==
    /\ raced
    /\ \E i, j \in 1..Len(m_cookieList) :
          i # j /\ m_cookieList[i].pid = m_cookieList[j].pid

C17_GenerateReturns ==
    /\ \A t \in Callers : (pc[t] = "draw") ~> (pc[t] = "idle" /\ ret.op = "Generate")
    /\ [][ \A t \in Callers, key \in Keys :
              ( /\ pc[t] = "draw"
                /\ \E i \in 1..Len(m_cookieList) : m_cookieList[i].cookieId = key
                /\ GenerateDraw(t, key) )
              => /\ pc'[t] = "draw"
                 /\ m_cookieList' = m_cookieList
                 /\ ret' = ret ]_vars

\* C17 witness: GenerateCookie has returned a new cookie it drew the key of
\* while another key was in use.
C17_Witness ==
    /\ ret.op = "Generate" /\ ret.via = "created"
    /\ ret.idx >= 2
    /\ \E i \in 1..Len(m_cookieList) :
          m_cookieList[i].cookieId # m_cookieList[ret.idx].cookieId

\* C18: with smack disabled every cookie of the jar carries the label
\* "smack_disabled", GenerateCookie never gives up on the label, and a
\* GenerateCookie whose path was read inserts its cookie whatever the label
\* of the process would have been (it is not asked for).
C18_SmackDisabledLabel ==
    /\ [](~smack => /\ \A i \in 1..Len(m_cookieList) :
                          m_cookieList[i].smackLabel = "smack_disabled"
                    /\ ret.via # "nolabel")
    /\ [][ \A t \in Callers, path \in Paths, label \in Labels \cup {Fail} :
              \A groups \in GroupAnswers :
                 ( /\ ~smack /\ pc[t] = "resolve"
                   /\ GenerateResolve(t, path, label, groups) )
                 => /\ ret'.via = "created"
                    /\ m_cookieList'[ret'.idx].smackLabel = "smack_disabled" ]_vars

\* C18 witness: with smack disabled GenerateCookie has inserted a cookie
\* next to another one.
C18_Witness ==
    /\ ~smack
    /\ ret.op = "Generate" /\ ret.via = "created"
    /\ Len(m_cookieList) = 2
    /\ m_cookieList[ret.idx].smackLabel = "smack_disabled"

\* C19: GenerateCookie(pid) for a pid that has a cookie returns at once the
\* stored record of that pid, the one an earlier GenerateCookie returned to
\* the client: no key is drawn, the path, label and groups of the process
\* are not asked for (whatever they would be), and the jar and its buffer
\* are as before.
C19_ExistingReturnedUntouched ==
    [][ \A t \in Callers, pid \in Pids :
          ( /\ HasPid(m_cookieList, pid)
            /\ GenerateCheck(t, pid) )
          => /\ pc'[t] = "idle" /\ newCookie' = newCookie
             /\ ret'.op = "Generate" /\ ret'.via = "exists"
             /\ ret'.idx \in 1..Len(m_cookieList)
             /\ m_cookieList[ret'.idx].pid = pid
             /\ (held.idx # 0 /\ held.cookie.pid = pid)
                   => m_cookieList[ret'.idx] = held.cookie
             /\ m_cookieList' = m_cookieList /\ capacity' = capacity ]_vars

\* C19 witness: GenerateCookie has returned the stored cookie of a pid, the
\* second record of the jar, with its two gids as recorded.
C19_Witness ==
    /\ ret.op = "Generate" /\ ret.via = "exists"
    /\ ret.idx = 2
    /\ m_cookieList[2].pid = ret.pid
    /\ m_cookieList[2].permissions = <<5, 7>>

====
